---- MODULE Spec2Model ----
(***************************************************************************)
(* Model of the notebook pyspark_energy_analysis.ipynb: a linear pipeline  *)
(* of code cells (fetch, load, clean, aggregate, visualize).  A run of the *)
(* notebook executes the cells top to bottom and stops at the first cell   *)
(* that raises.                                                            *)
(*                                                                         *)
(* Numbers are exact rationals <<n, d>> (d > 0, lowest terms); the SQL     *)
(* NULL of a numeric column is <<0, 0>>.  Timestamps are whole hours since *)
(* 2020-01-01T00:00:00Z in a UTC session; the NULL timestamp is -1.        *)
(* The CSV file is modelled after tokenisation: a sequence of data rows,   *)
(* each holding the text of its utc_timestamp and energy_consumption cell. *)
(***************************************************************************)
EXTENDS Integers, Sequences, FiniteSets, TLC

VARIABLES pc, response, file, file0, stdout, df, daily_consumption, fig, error

vars == <<pc, response, file, file0, stdout, df, daily_consumption, fig, error>>

(* ------------------------------ bounds --------------------------------- *)

\* largest number of data rows in a CSV file or response body
MaxLen == 3

(* --------------------------- program constants ------------------------- *)

\* response.status_code == 200
HTTP_OK == 200

\* date_trunc("day", ...): a day is 24 hours
HoursPerDay == 24

(* ------------------------------ numbers -------------------------------- *)

NullVal == <<0, 0>>

NullTs == 0 - 1

RECURSIVE GCD(_, _)
GCD(a, b) == IF b = 0 THEN a ELSE GCD(b, a % b)

\* the rational n/d in lowest terms (n >= 0, d > 0)
Rat(n, d) == LET g == GCD(n, d) IN IF g = 0 THEN <<0, 1>> ELSE <<n \div g, d \div g>>

RAdd(a, b) == Rat(a[1] * b[2] + b[1] * a[2], a[2] * b[2])

RDivInt(a, k) == Rat(a[1], a[2] * k)

\* cast(double as int): truncation toward zero
TruncToInt(a) == <<a[1] \div a[2], 1>>

(* --------------------------- the CSV cells ----------------------------- *)

EnergyTexts == {"", "5", "10", "2.5"}

TsTexts == {"2020-01-01T00:00:00Z", "2020-01-01T12:00:00Z",
            "2020-01-02T00:00:00Z", "not-a-timestamp"}

CsvRows == [utc_timestamp : TsTexts, energy_consumption : EnergyTexts]

RECURSIVE SeqsUpTo(_, _)
SeqsUpTo(S, n) ==
    IF n = 0 THEN {<<>>}
    ELSE LET shorter == SeqsUpTo(S, n - 1)
         IN  shorter \cup {Append(s, x) : s \in {t \in shorter : Len(t) = n - 1}, x \in S}

Tables == SeqsUpTo(CsvRows, MaxLen)

\* what an earlier run can have left in energy_data.csv
StaleFiles ==
    { <<[utc_timestamp |-> "2020-01-01T00:00:00Z", energy_consumption |-> "10"]>>,
      <<[utc_timestamp |-> "2020-01-02T00:00:00Z", energy_consumption |-> "5"],
        [utc_timestamp |-> "2020-01-01T12:00:00Z", energy_consumption |-> ""]>> }

NoFile == [exists |-> FALSE, content |-> <<>>]

FileOf(t) == [exists |-> TRUE, content |-> t]

Statuses == {200, 204, 404}

Responses == [status_code : Statuses, content : Tables]

(* ------------------------------ Fetcher -------------------------------- *)

\* open(save_path, 'ab'): the body is appended to what the file held
FileAfterFetchAppend(resp, f) ==
    IF resp.status_code = HTTP_OK
    THEN FileOf(f.content \o resp.content)
    ELSE f

\* the body is written whatever the status
FileAfterFetchAlways(resp, f) == FileOf(resp.content)

\* the file energy_data.csv after fetch_energy_data(url, save_path)
FileAfterFetch(resp, f) ==
    IF resp.status_code = HTTP_OK
    THEN FileOf(resp.content)
    ELSE f

FetchMessage(resp) ==
    IF resp.status_code = HTTP_OK
    THEN "Data saved to energy_data.csv"
    ELSE "Failed to download data"

(* ------------------------------- Loader -------------------------------- *)

IsIntegerText(s) == s \in {"5", "10"}

\* the number a numeric cell text denotes; an empty cell is NULL
CellValue(s) ==
    CASE s = ""    -> NullVal
      [] s = "5"   -> <<5, 1>>
      [] s = "10"  -> <<10, 1>>
      [] s = "2.5" -> <<5, 2>>

\* inferSchema=True on the energy_consumption column
InferType(t) ==
    LET present == {i \in 1..Len(t) : t[i].energy_consumption # ""}
    IN  IF present = {} THEN "string"
        ELSE IF \A i \in present : IsIntegerText(t[i].energy_consumption)
             THEN "int" ELSE "double"

NoDf == [etype |-> "none", rows |-> <<>>]

\* a file that does not exist is read as an empty table instead of failing
LoadFailsNever(f) == FALSE

\* spark.read.csv raises when the path does not exist
LoadFails(f) == ~f.exists

\* spark.read.csv("energy_data.csv", header=True, inferSchema=True)
ReadCsv(t) ==
    [etype |-> InferType(t),
     rows  |-> [i \in 1..Len(t) |->
                  [utc_timestamp      |-> t[i].utc_timestamp,
                   energy_consumption |-> CellValue(t[i].energy_consumption)]]]

(* ------------------------------- Cleaner ------------------------------- *)

RECURSIVE SumVals(_)
\* sum of the non-NULL values of a sequence of numbers (SQL sum skips NULL)
SumVals(vs) ==
    IF vs = <<>> THEN <<0, 1>>
    ELSE IF Head(vs) = NullVal THEN SumVals(Tail(vs))
         ELSE RAdd(Head(vs), SumVals(Tail(vs)))

EnergyOf(rows) == [i \in 1..Len(rows) |-> rows[i].energy_consumption]

CountPresent(rows) == Cardinality({i \in 1..Len(rows) : rows[i].energy_consumption # NullVal})

\* df.agg({"energy_consumption": "mean"}).collect()[0][0]; None when no value is present
Mean(rows) ==
    IF CountPresent(rows) = 0 THEN NullVal
    ELSE RDivInt(SumVals(EnergyOf(rows)), CountPresent(rows))

\* na.fill casts the replacement to the column's type
FillValue(etype, mean) == IF etype = "int" THEN TruncToInt(mean) ELSE mean

\* to_timestamp on a string: the cast yields NULL for a string that is no timestamp
to_timestamp(s) ==
    CASE s = "2020-01-01T00:00:00Z" -> 0
      [] s = "2020-01-01T12:00:00Z" -> 12
      [] s = "2020-01-02T00:00:00Z" -> 24
      [] OTHER                      -> NullTs

\* df.withColumn(name, value) on one row: adds the column or replaces it
WithColumn(r, name, v) ==
    [c \in DOMAIN r \cup {name} |-> IF c = name THEN v ELSE r[c]]

\* fillna({"energy_consumption": None}) raises; an unparseable timestamp raises too
CleanFailsOnBadTimestamp(d) ==
    \/ Mean(d.rows) = NullVal
    \/ \E i \in 1..Len(d.rows) : to_timestamp(d.rows[i].utc_timestamp) = NullTs

\* fillna({"energy_consumption": None}) raises: the mean of no values is None
CleanFails(d) == Mean(d.rows) = NullVal

\* the parsed column overwrites utc_timestamp, rendered one hour later
CleanRowShifting(r, fill) ==
    LET shifted == CASE r.utc_timestamp = "2020-01-01T00:00:00Z" -> "2020-01-01T12:00:00Z"
                     [] r.utc_timestamp = "2020-01-01T12:00:00Z" -> "2020-01-02T00:00:00Z"
                     [] OTHER -> r.utc_timestamp
        filled  == [r EXCEPT !.energy_consumption = IF @ = NullVal THEN fill ELSE @]
    IN  WithColumn([filled EXCEPT !.utc_timestamp = shifted],
                   "timestamp_column", to_timestamp(shifted))

\* fillna then withColumn("timestamp_column", to_timestamp(col("utc_timestamp"))) on one row
CleanRow(r, fill) ==
    LET filled == [r EXCEPT !.energy_consumption = IF @ = NullVal THEN fill ELSE @]
    IN  WithColumn(filled, "timestamp_column", to_timestamp(filled.utc_timestamp))

\* the Data Cleaning cell on a dataframe whose mean is defined
Clean(d) ==
    LET fill == FillValue(d.etype, Mean(d.rows))
    IN  [etype |-> d.etype,
         rows  |-> [i \in 1..Len(d.rows) |-> CleanRow(d.rows[i], fill)]]

(* ------------------------------ Aggregator ----------------------------- *)

\* the timestamp is used as the grouping key without truncation
date_trunc_identity(ts) == ts

\* date_trunc("day", ts): midnight of the timestamp's day; NULL stays NULL
date_trunc(ts) ==
    IF ts = NullTs THEN NullTs ELSE (ts \div HoursPerDay) * HoursPerDay

DateOf(r) == date_trunc(r.timestamp_column)

\* rows with a NULL date are left out of the grouping
GroupKeysNoNull(rows) == {DateOf(rows[i]) : i \in 1..Len(rows)} \ {NullTs}

\* groupBy("date"): one group per distinct value of the column, NULL included
GroupKeys(rows) == {DateOf(rows[i]) : i \in 1..Len(rows)}

\* count("energy_consumption") in place of sum
GroupCount(vs) == <<Cardinality({i \in 1..Len(vs) : vs[i] # NullVal}), 1>>

\* sum("energy_consumption") over one group: NULL when the group has no value
GroupSum(vs) ==
    IF \A i \in 1..Len(vs) : vs[i] = NullVal THEN NullVal ELSE SumVals(vs)

GroupRows(rows, k) == SelectSeq(rows, LAMBDA r : DateOf(r) = k)

\* the rows of daily_consumption, as a set
DailyAggregates(rows) ==
    { [date |-> k, total_daily_consumption |-> GroupSum(EnergyOf(GroupRows(rows, k)))]
        : k \in GroupKeys(rows) }

RECURSIVE Orderings(_)
\* every order in which the engine can return the groups of a groupBy
Orderings(S) ==
    IF S = {} THEN {<<>>}
    ELSE UNION { {<<x>> \o rest : rest \in Orderings(S \ {x})} : x \in S }

(* ------------------------------- Reporter ------------------------------ *)

NoFig == [shown |-> FALSE, x |-> <<>>, y |-> <<>>]

\* px.line(daily_pd, x="date", y="total_daily_consumption"): points in row order
LineChart(daily) ==
    [shown |-> TRUE,
     x     |-> [i \in 1..Len(daily) |-> daily[i].date],
     y     |-> [i \in 1..Len(daily) |-> daily[i].total_daily_consumption]]

(* ------------------------------ the run -------------------------------- *)

NoError == [stage |-> "none", kind |-> "none"]

Init ==
    /\ pc = "fetch"
    /\ response \in Responses
    /\ file0 \in {NoFile} \cup {FileOf(t) : t \in StaleFiles}
    /\ file = file0
    /\ stdout = <<>>
    /\ df = NoDf
    /\ daily_consumption = <<>>
    /\ fig = NoFig
    /\ error = NoError

\* cell: fetch_energy_data(dataset_url, "energy_data.csv")
FetchCell ==
    /\ pc = "fetch"
    /\ file' = FileAfterFetch(response, file)
    /\ stdout' = Append(stdout, FetchMessage(response))
    /\ pc' = "load"
    /\ UNCHANGED <<response, file0, df, daily_consumption, fig, error>>

\* cell: df = spark.read.csv("energy_data.csv", header=True, inferSchema=True)
LoadCell ==
    /\ pc = "load"
    /\ IF LoadFails(file)
       THEN /\ pc' = "error"
            /\ error' = [stage |-> "load", kind |-> "PATH_NOT_FOUND"]
            /\ df' = df
       ELSE /\ pc' = "clean"
            /\ df' = ReadCsv(file.content)
            /\ error' = error
    /\ UNCHANGED <<response, file, file0, stdout, daily_consumption, fig>>

\* cell: Data Cleaning
CleanCell ==
    /\ pc = "clean"
    /\ IF CleanFails(df)
       THEN /\ pc' = "error"
            /\ error' = [stage |-> "clean", kind |-> "fillna"]
            /\ df' = df
       ELSE /\ pc' = "aggregate"
            /\ df' = Clean(df)
            /\ error' = error
    /\ UNCHANGED <<response, file, file0, stdout, daily_consumption, fig>>

\* cell: Time Series Analysis
AggregateCell ==
    /\ pc = "aggregate"
    /\ \E order \in Orderings(DailyAggregates(df.rows)) : daily_consumption' = order
    /\ pc' = "visualize"
    /\ UNCHANGED <<response, file, file0, stdout, df, fig, error>>

\* cell: Visualization
VisualizeCell ==
    /\ pc = "visualize"
    /\ fig' = LineChart(daily_consumption)
    /\ pc' = "done"
    /\ UNCHANGED <<response, file, file0, stdout, df, daily_consumption, error>>

Next ==
    \/ FetchCell
    \/ LoadCell
    \/ CleanCell
    \/ AggregateCell
    \/ VisualizeCell

Spec == Init /\ [][Next]_vars

(* ------------------------- vocabulary of the claims -------------------- *)

Fetched == pc # "fetch"

Cleaned == pc \in {"aggregate", "visualize", "done"}

Aggregated == pc \in {"visualize", "done"}

SuccessClass == 200..299

\* the dataframe the Loader made of the file (the file is not written after the fetch)
Loaded == ReadCsv(file.content)

Unparseable(s) ==
    s \notin {"2020-01-01T00:00:00Z", "2020-01-01T12:00:00Z", "2020-01-02T00:00:00Z"}

RECURSIVE SumOver(_, _)
\* sum of f[i] over the index set I
SumOver(f, I) ==
    IF I = {} THEN <<0, 1>>
    ELSE LET i == CHOOSE j \in I : TRUE
         IN  RAdd(f[i], SumOver(f, I \ {i}))

\* the record with timestamp ts falls on the day that starts at midnight d
FallsOn(ts, d) ==
    IF ts = NullTs \/ d = NullTs THEN ts = d
    ELSE d % HoursPerDay = 0 /\ d <= ts /\ ts < d + HoursPerDay

EntriesFor(ts) == {k \in 1..Len(daily_consumption) : FallsOn(ts, daily_consumption[k].date)}

(* ------------------------------- claims -------------------------------- *)

\* C1: after cleaning, every energy_consumption that was missing in the input
\* equals the exact arithmetic mean of the values present in the input, and
\* every value that was present is unchanged.
C1_ExactMeanImputation ==
    Cleaned =>
        \A i \in 1..Len(df.rows) :
            IF Loaded.rows[i].energy_consumption = NullVal
            THEN df.rows[i].energy_consumption = Mean(Loaded.rows)
            ELSE df.rows[i].energy_consumption = Loaded.rows[i].energy_consumption

\* C2: every daily aggregate's total_daily_consumption is the sum of
\* energy_consumption over exactly the cleaned records whose timestamp falls on
\* the aggregate's date.
C2_DailyTotalIsSumOfDay ==
    Aggregated =>
        \A k \in 1..Len(daily_consumption) :
            daily_consumption[k].total_daily_consumption =
                SumOver(EnergyOf(df.rows),
                        {i \in 1..Len(df.rows) :
                            FallsOn(df.rows[i].timestamp_column, daily_consumption[k].date)})

\* C2 witness: a day with two records at different hours and a second day
C2_Witness ==
    /\ pc = "done"
    /\ \E i, j \in 1..Len(df.rows) :
          /\ df.rows[i].timestamp_column = 0
          /\ df.rows[j].timestamp_column = 12
    /\ \E i \in 1..Len(df.rows) : df.rows[i].timestamp_column = 24
    /\ \E k \in 1..Len(daily_consumption) :
          /\ daily_consumption[k].date = 0
          /\ daily_consumption[k].total_daily_consumption = <<15, 1>>

\* C3 (as stated): exactly one aggregate for each calendar day of the input and
\* no entry that is not a calendar day of the input.
C3_OneEntryPerCalendarDay ==
    Aggregated =>
        /\ \A i \in 1..Len(df.rows) :
              df.rows[i].timestamp_column # NullTs =>
                  Cardinality(EntriesFor(df.rows[i].timestamp_column)) = 1
        /\ \A k \in 1..Len(daily_consumption) :
              /\ daily_consumption[k].date # NullTs
              /\ \E i \in 1..Len(df.rows) :
                    /\ df.rows[i].timestamp_column # NullTs
                    /\ FallsOn(df.rows[i].timestamp_column, daily_consumption[k].date)

\* C3 (amended): exactly one aggregate for each calendar day of the input, plus
\* exactly one aggregate with a NULL date when some record has a NULL timestamp;
\* every aggregate is the entry of at least one input record.
C3_OneEntryPerGroup ==
    Aggregated =>
        /\ \A i \in 1..Len(df.rows) :
              Cardinality(EntriesFor(df.rows[i].timestamp_column)) = 1
        /\ \A k \in 1..Len(daily_consumption) :
              \E i \in 1..Len(df.rows) :
                    FallsOn(df.rows[i].timestamp_column, daily_consumption[k].date)

\* C3 witness: two calendar days and a record without a timestamp give three entries
C3_Witness ==
    /\ pc = "done"
    /\ Len(daily_consumption) = 3
    /\ \E k \in 1..Len(daily_consumption) : daily_consumption[k].date = NullTs
    /\ \E i, j \in 1..Len(df.rows) :
          /\ df.rows[i].timestamp_column = 0
          /\ df.rows[j].timestamp_column = 24

\* C4: the totals of the daily aggregates sum to the sum of energy_consumption
\* over all cleaned records.
C4_SumConservation ==
    Aggregated =>
        SumOver([k \in 1..Len(daily_consumption) |->
                    daily_consumption[k].total_daily_consumption],
                1..Len(daily_consumption))
            = SumOver(EnergyOf(df.rows), 1..Len(df.rows))

\* C4 witness: three records regrouped into two aggregates, one of them NULL-dated
C4_Witness ==
    /\ pc = "visualize"
    /\ Len(df.rows) = 3
    /\ Len(daily_consumption) = 2
    /\ \E i \in 1..Len(df.rows) : df.rows[i].timestamp_column = NullTs

\* C5: after a fetch whose response has a non-success status the file is what
\* it was before the fetch (absent stays absent), the failure message was
\* printed, and the fetch did not raise.
C5_FailedFetchWritesNothing ==
    (Fetched /\ response.status_code \notin SuccessClass) =>
        /\ file = file0
        /\ stdout = <<"Failed to download data">>
        /\ error.stage # "fetch"

\* C5 witness: a 404 with an existing file, execution has gone on to the Loader
C5_Witness ==
    /\ pc = "load"
    /\ response.status_code = 404
    /\ file0.exists
    /\ response.content # file0.content

\* C6 (as stated): after a fetch whose response has any 2xx status the file
\* holds the response body and the fetch did not raise.
C6_SuccessClassWritesBody ==
    (Fetched /\ response.status_code \in SuccessClass) =>
        /\ file = FileOf(response.content)
        /\ error.stage # "fetch"

\* C6 (amended): after a fetch whose response has status 200 the file holds
\* exactly the response body, whatever it held before, and the fetch did not raise.
C6_Status200WritesBody ==
    (Fetched /\ response.status_code = 200) =>
        /\ file = FileOf(response.content)
        /\ stdout = <<"Data saved to energy_data.csv">>
        /\ error.stage # "fetch"

\* C6 witness: a 200 whose body replaces a different existing file
C6_Witness ==
    /\ pc = "load"
    /\ response.status_code = 200
    /\ file0.exists
    /\ file0.content # response.content
    /\ response.content # <<>>

\* C7 (as stated): when some record's utc_timestamp cannot be parsed the run
\* halts in the cleaning step: no cleaned records, no aggregates, no chart.
C7_BadTimestampHalts ==
    (\E i \in 1..Len(df.rows) : Unparseable(df.rows[i].utc_timestamp)) =>
        /\ ~Cleaned
        /\ daily_consumption = <<>>
        /\ ~fig.shown

\* C7 (amended): an unparseable utc_timestamp raises nothing: the cleaning step
\* fails only when no energy_consumption is present; otherwise it keeps every
\* record in order, gives the records with an unparseable utc_timestamp a NULL
\* timestamp_column, the aggregation puts them under a NULL-dated aggregate,
\* and the chart is rendered.
C7_BadTimestampBecomesNull ==
    /\ error.stage = "clean" =>
          \A i \in 1..Len(file.content) : file.content[i].energy_consumption = ""
    /\ Cleaned =>
          /\ Len(df.rows) = Len(file.content)
          /\ \A i \in 1..Len(df.rows) :
                /\ df.rows[i].utc_timestamp = file.content[i].utc_timestamp
                /\ Unparseable(df.rows[i].utc_timestamp) <=>
                       df.rows[i].timestamp_column = NullTs
    /\ Aggregated =>
          ((\E i \in 1..Len(df.rows) : Unparseable(df.rows[i].utc_timestamp))
              <=> (\E k \in 1..Len(daily_consumption) : daily_consumption[k].date = NullTs))
    /\ pc = "done" => fig.shown /\ Len(fig.x) = Len(daily_consumption)

\* C7 witness: a run with an unparseable timestamp has rendered its chart
C7_Witness ==
    /\ pc = "done"
    /\ fig.shown
    /\ \E i \in 1..Len(df.rows) :
          Unparseable(df.rows[i].utc_timestamp) /\ df.rows[i].timestamp_column = NullTs
    /\ \E i \in 1..Len(df.rows) : ~Unparseable(df.rows[i].utc_timestamp)

\* C8 (as stated): after a fetch with a non-success status no chart is rendered
\* (the data of the run was not downloaded by the run).
C8_NoChartWithoutDownload ==
    response.status_code \notin SuccessClass => ~fig.shown

\* C8 (amended): after a fetch with a non-success status execution continues
\* to the Loader; when energy_data.csv is missing the Loader raises, nothing is
\* loaded and no chart is rendered; when a file of an earlier run is present it
\* is loaded and the later stages work on it.
C8_MissingFileFailsStaleFileLoads ==
    (Fetched /\ response.status_code \notin SuccessClass) =>
        /\ error.stage # "fetch"
        /\ ~file0.exists =>
              /\ pc \in {"load", "error"}
              /\ pc = "error" => error = [stage |-> "load", kind |-> "PATH_NOT_FOUND"]
              /\ df = NoDf
              /\ daily_consumption = <<>>
              /\ ~fig.shown
        /\ file0.exists =>
              /\ error.stage # "load"
              /\ pc # "load" =>
                    /\ Len(df.rows) = Len(file0.content)
                    /\ \A i \in 1..Len(df.rows) :
                          df.rows[i].utc_timestamp = file0.content[i].utc_timestamp

\* C8 witness: the fetch got a 404, no file was there, the Loader has raised
C8_Witness ==
    /\ pc = "error"
    /\ error.stage = "load"
    /\ response.status_code = 404
    /\ ~file0.exists

\* C9: cleaning the cleaned records again succeeds and changes nothing
\* (values, cardinality and order).
C9_CleanIdempotent ==
    Cleaned => (~CleanFails(df) /\ Clean(df) = df)

\* C9 witness: the first cleaning filled a missing value and parsed a timestamp
C9_Witness ==
    /\ pc = "aggregate"
    /\ df # Loaded
    /\ \E i \in 1..Len(df.rows) :
          /\ file.content[i].energy_consumption = ""
          /\ df.rows[i].timestamp_column = 0

\* C10: the chart's x values are given to the line chart in non-decreasing
\* date order.
C10_ChartSortedByDate ==
    fig.shown =>
        \A i, j \in 1..Len(fig.x) : i < j => fig.x[i] <= fig.x[j]

====
